---- MODULE Spec2Model ----
(***************************************************************************)
(* FarmConnect price dashboard (src/app.py): the CSV backing file, the     *)
(* script run that loads it, renders the dashboard and the advisor, and    *)
(* the password-gated data management tab that overwrites the file.        *)
(***************************************************************************)
EXTENDS Integers, Sequences, FiniteSets, TLC

(***************************************************************************)
(* Bounds of the model.                                                    *)
(***************************************************************************)
\* longest backing file (in rows) an append may produce
MaxRows == 3
\* calendar days are 1..MaxDay
MaxDay == 2
\* recommend is explored for current and average in 0..MaxPrice
MaxPrice == 120

(***************************************************************************)
(* Program constants.                                                      *)
(***************************************************************************)
PRICE_FILE == "indian_prices.csv"

FALLBACK_PRICES == [Wheat |-> 2250, Rice |-> 3150, Potatoes |-> 850, Tomatoes |-> 1250]

crops == <<"Wheat", "Rice", "Potatoes", "Tomatoes">>

DEFAULT_ADMIN_PASS == "farmconnect2024"

Range(s) == {s[i] : i \in 1..Len(s)}

Crops == Range(crops)

(***************************************************************************)
(* Values.  Every value of a file or a frame is a cell [val, fmt].  A      *)
(* number is Num(n): a CSV's number and the number read from it have the   *)
(* same value.  A cell of the CSV's Date column is text: fmt "D" is a date *)
(* alone (2024-01-05), "DT" a date and a time (2024-01-05 00:00:00), "DTF" *)
(* a date and a time with a fraction of a second, "text" is no date.  In   *)
(* memory a date is a Timestamp at midnight ("ts0"), a Timestamp with a    *)
(* time of day ("tsf"), a datetime.date ("date") or NaT.                   *)
(***************************************************************************)
Days == 1..MaxDay

Cell(d, f) == [val |-> d, fmt |-> f]

Num(n) == Cell(n, "num")

NaN == Cell(0, "NaN")

NaT == Cell(0, "NaT")

TextCell == Cell(0, "text")

\* datetime.today(): the current day, with the time of day
today == Cell(MaxDay, "tsf")

\* date_input's default and value: a datetime.date
date_value(d) == Cell(d, "date")

\* the format pandas >= 2 infers from the first element, "none" when it
\* cannot (the parse then falls back to element-by-element parsing)
guess_datetime_format(cells) ==
  IF cells = <<>> \/ cells[1].fmt \notin {"D", "DT", "DTF"} THEN "none" ELSE cells[1].fmt

\* one string parsed on its own
parse_datetime(c) ==
  CASE c.fmt \in {"D", "DT"} -> Cell(c.val, "ts0")
    [] c.fmt = "DTF" -> Cell(c.val, "tsf")
    [] c.fmt \in {"ts0", "tsf"} -> c
    [] c.fmt = "date" -> Cell(c.val, "ts0")
    [] OTHER -> NaT

\* pd.to_datetime(column, errors='coerce').  strict is the build's pandas:
\* from 2.0 on the format of the first element is applied to every element
\* and an element in another format becomes NaT; before 2.0 every element
\* is parsed on its own.
to_datetime(cells, strict) ==
  LET format == guess_datetime_format(cells)
  IN [i \in 1..Len(cells) |->
        IF strict /\ format # "none" /\ cells[i].fmt # format
          THEN NaT ELSE parse_datetime(cells[i])]

\* str() of a value of an object column, as DataFrame.to_csv writes it
date_to_str(v) ==
  CASE v.fmt = "ts0" -> Cell(v.val, "DT")
    [] v.fmt = "tsf" -> Cell(v.val, "DTF")
    [] v.fmt = "date" -> Cell(v.val, "D")
    [] OTHER -> v

(***************************************************************************)
(* Files and data frames.  A file is absent, or a header (the column names *)
(* as written) and rows (one value per column).  A data frame has columns  *)
(* and rows that each carry their index label.                             *)
(***************************************************************************)
NoFile == [exists |-> FALSE, header |-> <<>>, rows |-> <<>>]

CsvFile(h, r) == [exists |-> TRUE, header |-> h, rows |-> r]

\* pd.DataFrame()
EmptyFrame == [columns |-> <<>>, rows |-> <<>>]

\* str.strip on a column name
strip(name) ==
  CASE name = " Date " -> "Date"
    [] OTHER -> name

IndexOf(seq, x) == CHOOSE i \in 1..Len(seq) : seq[i] = x

\* pd.read_csv: the rows get the labels 0, 1, 2, ...; a file without a
\* header line raises EmptyDataError
read_csv(f) ==
  [columns |-> f.header,
   rows |-> [i \in 1..Len(f.rows) |->
               [label |-> i - 1,
                vals |-> [j \in 1..Len(f.header) |-> f.rows[i][j]]]]]

\* df.columns = df.columns.str.strip()
strip_columns(df) ==
  [df EXCEPT !.columns = [j \in 1..Len(df.columns) |-> strip(df.columns[j])]]

Column(df, name) ==
  LET at == IndexOf(df.columns, name)
  IN [i \in 1..Len(df.rows) |-> df.rows[i].vals[at]]

\* df['Date'] = pd.to_datetime(df['Date'], errors='coerce')
convert_dates(df, strict) ==
  LET at == IndexOf(df.columns, "Date")
      parsed == to_datetime(Column(df, "Date"), strict)
  IN [df EXCEPT !.rows =
        [i \in 1..Len(df.rows) |-> [df.rows[i] EXCEPT !.vals[at] = parsed[i]]]]

IsValidDate(row, j) == row.vals[j] # NaT

\* df.dropna(subset=['Date']): the rows kept keep their labels
dropna(df) ==
  LET at == IndexOf(df.columns, "Date")
  IN [df EXCEPT !.rows = SelectSeq(df.rows, LAMBDA r : IsValidDate(r, at))]

\* a fallback without a record, against which C4 is tested
no_fallback_record == [columns |-> <<"Date">> \o crops, rows |-> <<>>]

\* pd.DataFrame({'Date': [datetime.today()], **FALLBACK_PRICES})
fallback_frame ==
  [columns |-> <<"Date">> \o crops,
   rows |-> << [label |-> 0,
                vals |-> <<today>> \o [k \in 1..Len(crops) |-> Num(FALLBACK_PRICES[crops[k]])]] >>]

\* load_price_data(): the frame returned and what it signals to the user
load_price_data(f, strict) ==
  IF ~f.exists
    THEN [df |-> fallback_frame, signal |-> "StoreMissing"]
  ELSE IF f.header = <<>>
    THEN [df |-> EmptyFrame, signal |-> "LoadFailed"]
  ELSE IF "Date" \notin Range(strip_columns(read_csv(f)).columns)
    THEN [df |-> EmptyFrame, signal |-> "MissingDateColumn"]
  ELSE [df |-> dropna(convert_dates(strip_columns(read_csv(f)), strict)),
        signal |-> "none"]

\* price_df.loc[label] = new_entry, a dict keyed by column name: the row
\* with that label is overwritten where one exists, and is added after the
\* last row where none does.  The dict is aligned to the frame's columns
\* (a column it lacks gets NaN).
loc_setitem(df, label, value) ==
  LET aligned == [j \in 1..Len(df.columns) |->
                    IF df.columns[j] \in DOMAIN value
                      THEN value[df.columns[j]] ELSE NaN]
      row == [label |-> label, vals |-> aligned]
  IN IF \E i \in 1..Len(df.rows) : df.rows[i].label = label
       THEN [df EXCEPT !.rows =
               [i \in 1..Len(df.rows) |->
                  IF df.rows[i].label = label THEN row ELSE df.rows[i]]]
       ELSE [df EXCEPT !.rows = Append(df.rows, row)]

\* df.to_csv(PRICE_FILE, index=False): the header and every row without
\* its label, each value written as str() gives it
to_csv(df) ==
  CsvFile(df.columns,
          [i \in 1..Len(df.rows) |->
             [j \in 1..Len(df.columns) |-> date_to_str(df.rows[i].vals[j])]])

\* pd.read_csv(new_file) of an upload raises on a file without a header
upload_readable(f) == f.header # <<>>

\* new_df.to_csv(PRICE_FILE, index=False) of the frame read from an upload:
\* nothing of it was converted, so the file is the upload as read
commit_upload(f) == to_csv(read_csv(f))

\* the manual entry form's new_entry
new_entry(d, prices) ==
  [Date |-> date_value(d), Wheat |-> Num(prices[1]), Rice |-> Num(prices[2]),
   Potatoes |-> Num(prices[3]), Tomatoes |-> Num(prices[4])]

\* price_df.loc[len(price_df)] = new_entry; price_df.to_csv(PRICE_FILE, ...)
append_entry(df, entry) == loc_setitem(df, Len(df.rows), entry)

(***************************************************************************)
(* The values the dashboard and the advisor derive from the frame.         *)
(***************************************************************************)
empty(df) == df.columns = <<>> \/ df.rows = <<>>

HasColumn(df, name) == name \in Range(df.columns)

\* latest = price_df.iloc[-1] if not price_df.empty else FALLBACK_PRICES;
\* latest[crop] raises KeyError where the last row has no such column
latest_has(df, crop) == empty(df) \/ HasColumn(df, crop)

\* a latest price without the fallback, against which C8 is tested
latest_without_fallback(df, crop) ==
  IF empty(df) THEN 0
  ELSE df.rows[Len(df.rows)].vals[IndexOf(df.columns, crop)].val

latest(df, crop) ==
  IF empty(df) THEN FALLBACK_PRICES[crop]
  ELSE df.rows[Len(df.rows)].vals[IndexOf(df.columns, crop)].val

\* delta = latest[crop] - price_df.iloc[-2][crop] if len(price_df) > 1 else 0
delta(df, crop) ==
  IF Len(df.rows) > 1
    THEN latest(df, crop) - df.rows[Len(df.rows) - 1].vals[IndexOf(df.columns, crop)].val
    ELSE 0

RECURSIVE SumSeq(_)
SumSeq(s) == IF s = <<>> THEN 0 ELSE s[1].val + SumSeq(Tail(s))

\* price_df[selected_crop].mean(): the sum and the count it divides by;
\* the mean of no value is NaN
mean(df, crop) ==
  IF df.rows = <<>> THEN [nan |-> TRUE, sum |-> 0, count |-> 0]
  ELSE [nan |-> FALSE, sum |-> SumSeq(Column(df, crop)), count |-> Len(df.rows)]

(***************************************************************************)
(* float64 arithmetic.  A positive double is [m, e]: m its significand, a  *)
(* number of 53 bits kept as five limbs of 11 bits (lowest limb first),    *)
(* its highest bit 1 and worth 2^e.  A result is rounded to the nearest    *)
(* double, a tie to the even significand, as the hardware rounds it.       *)
(***************************************************************************)
SignificandBits == 53

LimbBits == 11

RECURSIVE Pow2(_)
Pow2(n) == IF n = 0 THEN 1 ELSE 2 * Pow2(n - 1)

LimbBase == Pow2(LimbBits)

Zero == [zero |-> TRUE, m |-> <<0, 0, 0, 0, 0>>, e |-> 0]

Double(m, e) == [zero |-> FALSE, m |-> m, e |-> e]

\* v, evaluated once, given to F
With(v, F(_)) == CHOOSE r \in {F(x) : x \in {v}} : TRUE

\* adding one to a number carries into limb k when every limb below is full
CarryInto(limbs, k) == \A j \in 1..(k - 1) : limbs[j] = LimbBase - 1

\* the limbs of the number plus one (without the carry out of the last)
Increment(limbs) ==
  [k \in 1..Len(limbs) |->
     IF CarryInto(limbs, k) THEN (limbs[k] + 1) % LimbBase ELSE limbs[k]]

\* the significand m of the exact value's first 53 bits, rounded: guard is
\* the bit that follows them, sticky says that a 1 follows the guard
RoundToDouble(m, e, guard, sticky) ==
  IF ~(guard = 1 /\ (sticky \/ m[1] % 2 = 1)) THEN Double(m, e)
  ELSE IF CarryInto(m, Len(m)) /\ m[Len(m)] = Pow2(SignificandBits - 4 * LimbBits) - 1
    THEN Double(<<0, 0, 0, 0, Pow2(SignificandBits - 4 * LimbBits - 1)>>, e + 1)
  ELSE Double(Increment(m), e)

\* the e with 2^e <= num / den < 2^(e+1)
RECURSIVE Exponent(_, _)
Exponent(num, den) ==
  IF num < den THEN Exponent(2 * num, den) - 1
  ELSE IF num >= 2 * den THEN Exponent(num, 2 * den) + 1
  ELSE 0

\* long division of num / den in [1, 2): the remainder left once limb k
\* of the quotient is out (limb 5, the highest, holds the leading 1 and
\* the 8 bits after it; Remainder(num, den, 6) is what the leading 1 leaves)
RECURSIVE Remainder(_, _, _)
Remainder(num, den, k) ==
  IF k = 6 THEN num - den
  ELSE IF k = 5 THEN (Remainder(num, den, 6) * Pow2(SignificandBits - 4 * LimbBits - 1)) % den
  ELSE (Remainder(num, den, k + 1) * LimbBase) % den

\* limb k of the quotient's first 53 bits
QuotientLimb(num, den, k) ==
  IF k = 5
    THEN Pow2(SignificandBits - 4 * LimbBits - 1)
           + (Remainder(num, den, 6) * Pow2(SignificandBits - 4 * LimbBits - 1)) \div den
  ELSE (Remainder(num, den, k + 1) * LimbBase) \div den

\* float(num) / float(den) for integers num >= 0 and den > 0
fdiv(num, den) ==
  IF num = 0 THEN Zero
  ELSE LET ex == Exponent(num, den)
           scaledNum == IF ex < 0 THEN num * Pow2(-ex) ELSE num
           scaledDen == IF ex > 0 THEN den * Pow2(ex) ELSE den
           last == Remainder(scaledNum, scaledDen, 1)
       IN RoundToDouble([k \in 1..5 |-> QuotientLimb(scaledNum, scaledDen, k)],
                        ex,
                        IF 2 * last >= scaledDen THEN 1 ELSE 0,
                        (2 * last) % scaledDen # 0)

\* limb i of a times the limb of b that meets it in column k
Term(a, b, k, i) == IF k + 1 - i \in 1..5 THEN a[i] * b[k + 1 - i] ELSE 0

\* the column sums of the product of two numbers of five limbs
ProductColumns(a, b) ==
  [k \in 1..9 |->
     Term(a, b, k, 1) + Term(a, b, k, 2) + Term(a, b, k, 3) + Term(a, b, k, 4)
       + Term(a, b, k, 5)]

\* the carry out of column k
RECURSIVE CarryOut(_, _)
CarryOut(cols, k) ==
  IF k = 0 THEN 0 ELSE (cols[k] + CarryOut(cols, k - 1)) \div LimbBase

\* the carries of the columns taken up: ten limbs, lowest first
CarryLimbs(cols) ==
  [k \in 1..(Len(cols) + 1) |->
     IF k > Len(cols) THEN CarryOut(cols, Len(cols))
     ELSE (cols[k] + CarryOut(cols, k - 1)) % LimbBase]

LimbAt(limbs, k) == IF k \in 1..Len(limbs) THEN limbs[k] ELSE 0

\* the five lowest limbs of a number shifted right by count bits
ShiftRight(limbs, count) ==
  [k \in 1..5 |->
     LimbAt(limbs, k + count \div LimbBits) \div Pow2(count % LimbBits)
       + (LimbAt(limbs, k + count \div LimbBits + 1) % Pow2(count % LimbBits))
           * Pow2(LimbBits - (count % LimbBits))]

\* bit i of a number, the lowest being bit 0
BitAt(limbs, i) == (LimbAt(limbs, i \div LimbBits + 1) \div Pow2(i % LimbBits)) % 2

\* one of the count lowest bits of a number is 1
LowBits(limbs, count) ==
  \/ \E k \in 1..(count \div LimbBits) : LimbAt(limbs, k) # 0
  \/ LimbAt(limbs, count \div LimbBits + 1) % Pow2(count % LimbBits) # 0

\* the product of two significands is a number of 105 or of 106 bits
ProductBits(product) ==
  IF product[10] >= Pow2(2 * SignificandBits - 1 - 9 * LimbBits)
    THEN 2 * SignificandBits ELSE 2 * SignificandBits - 1

RoundProduct(product, e) ==
  LET drop == ProductBits(product) - SignificandBits
  IN RoundToDouble(ShiftRight(product, drop),
                   e + (IF drop = SignificandBits THEN 1 ELSE 0),
                   BitAt(product, drop - 1),
                   LowBits(product, drop - 1))

\* x * y in float64
fmul(x, y) ==
  IF x.zero \/ y.zero THEN Zero
  ELSE With(CarryLimbs(ProductColumns(x.m, y.m)),
            LAMBDA product : RoundProduct(product, x.e + y.e))

\* the limbs of a number of 13 hexadecimal digits after a leading 1
HexLimbs(h) ==
  <<h[13] + 16 * h[12] + 256 * (h[11] % 8),
    h[11] \div 8 + 2 * h[10] + 32 * h[9] + 512 * (h[8] % 4),
    h[8] \div 4 + 4 * h[7] + 64 * h[6] + 1024 * (h[5] % 2),
    h[5] \div 2 + 8 * h[4] + 128 * h[3],
    h[2] + 16 * h[1] + 256>>

\* the literal 1.15 is the double 0x1.2666666666666p+0
SELL_FACTOR == Double(HexLimbs(<<2, 6, 6, 6, 6, 6, 6, 6, 6, 6, 6, 6, 6>>), 0)

\* the literal 0.85 is the double 0x1.b333333333333p-1
HOLD_FACTOR == Double(HexLimbs(<<11, 3, 3, 3, 3, 3, 3, 3, 3, 3, 3, 3, 3>>), -1)

\* the number the limbs write (one that fits an integer)
RECURSIVE LimbsValue(_)
LimbsValue(limbs) ==
  IF limbs = <<>> THEN 0 ELSE limbs[1] + LimbBase * LimbsValue(Tail(limbs))

\* the whole part of a double that is not negative
Floor(x) ==
  IF x.zero \/ x.e < 0 THEN 0
  ELSE LimbsValue(ShiftRight(x.m, SignificandBits - 1 - x.e))

\* the double is no whole number
HasFraction(x) ==
  ~x.zero /\ (x.e < 0 \/ LowBits(x.m, SignificandBits - 1 - x.e))

\* k > x and k < x for an integer k >= 0 and a double x >= 0
IntGreater(k, x) == k > Floor(x)

IntLess(k, x) == k < Floor(x) \/ (k = Floor(x) /\ HasFraction(x))

\* the recommendation card: avg_price is the mean, [nan, sum, count];
\* every comparison with NaN is false
recommend(current_price, avg_price) ==
  IF avg_price.nan THEN "Stable"
  ELSE With(fdiv(avg_price.sum, avg_price.count),
            LAMBDA avg :
              IF With(fmul(avg, SELL_FACTOR), LAMBDA t : IntGreater(current_price, t))
                THEN "Sell"
              ELSE IF With(fmul(avg, HOLD_FACTOR), LAMBDA t : IntLess(current_price, t))
                THEN "Hold"
              ELSE "Stable")

(***************************************************************************)
(* The inputs explored: the prices a row may carry, the files an operator  *)
(* may upload (or find in place at the start), the passwords typed.        *)
(***************************************************************************)
PriceChoices == << <<2200, 3100, 800, 1300>>, <<2400, 3300, 900, 1100>> >>

Row(date, prices) == <<date>> \o [k \in 1..Len(prices) |-> Num(prices[k])]

FullHeader == <<"Date">> \o crops

Uploads ==
  << \* every column, two dated rows in order
     CsvFile(FullHeader,
             <<Row(Cell(1, "D"), PriceChoices[1]), Row(Cell(2, "D"), PriceChoices[2])>>),
     \* no Wheat column
     CsvFile(<<"Date", "Rice", "Potatoes", "Tomatoes">>,
             << <<Cell(1, "D"), Num(3100), Num(800), Num(1300)>>,
                <<Cell(2, "D"), Num(3300), Num(900), Num(1100)>> >>),
     \* a row whose date is no date, before a dated row
     CsvFile(FullHeader,
             <<Row(TextCell, PriceChoices[1]), Row(Cell(1, "D"), PriceChoices[2])>>) >>

\* the prices typed into the manual entry form
FormPrices == <<2300, 3200, 850, 1200>>

\* a file without a Date column
NoDateFile == CsvFile(crops, << [k \in 1..Len(crops) |-> Num(PriceChoices[1][k])] >>)

\* a file with a padded Date column name
PaddedFile == CsvFile(<<" Date ">> \o crops, <<Row(Cell(1, "D"), PriceChoices[2])>>)

\* a file with no row that has a date
UndatedFile == CsvFile(FullHeader, <<Row(TextCell, PriceChoices[2])>>)

\* a file of no bytes: pd.read_csv raises EmptyDataError on it
BlankFile == CsvFile(<<>>, <<>>)

Passwords == {"", "letmein", DEFAULT_ADMIN_PASS}

\* st.secrets.get("ADMIN_PASS", "farmconnect2024") where no secret is set
ADMIN_PASS == DEFAULT_ADMIN_PASS

Sessions == {1, 2}

(***************************************************************************)
(* State.                                                                  *)
(***************************************************************************)
VARIABLES
  file,        \* the backing file PRICE_FILE
  strict,      \* the build's pandas infers one date format per column
  toggle,      \* per session: the "Enable Admin Mode" toggle
  admin_pass,  \* per session: the password field
  new_file,    \* per session: the upload staged in the file uploader (0: none)
  crop_select, \* per session: the advisor's crop
  clicked,     \* per session: the button that started the run
  form,        \* per session: the manual entry form's fields
  pc,          \* per session: where its script run stands
  rerun,       \* per session: the run was started by st.rerun()
  price_df,    \* per session: the run's frame
  signal,      \* per session: what load_price_data told the user
  view,        \* per session: what the dashboard and the advisor show
  log,         \* the last write of the backing file
  clean,       \* the file at the start and every upload committed since
               \* were well formed
  start_file,  \* per session: the file its run loaded
  writes,      \* the sessions that wrote the file, in order
  cur, avg, rec  \* recommend's arguments and its result

vars ==
  <<file, strict, toggle, admin_pass, new_file, crop_select, clicked, form, pc,
    rerun, price_df, signal, view, log, clean, start_file, writes, cur, avg, rec>>

NoEntry == [Date |-> NaT]

NoMean == [nan |-> TRUE, sum |-> 0, count |-> 0]

NoView == [metrics |-> <<>>, crop |-> "", current_price |-> 0,
           avg_price |-> NoMean, raised |-> "none"]

NoLog == [op |-> "none", by |-> 0, frame |-> EmptyFrame, entry |-> NoEntry,
          upload |-> NoFile]

\* the dates of a file's rows that are dates
FileDates(f) ==
  IF ~f.exists \/ \A j \in 1..Len(f.header) : strip(f.header[j]) # "Date" THEN <<>>
  ELSE LET at == CHOOSE j \in 1..Len(f.header) : strip(f.header[j]) = "Date"
           dated == SelectSeq(f.rows, LAMBDA r : r[at].fmt \in {"D", "DT", "DTF"})
       IN [i \in 1..Len(dated) |-> dated[i][at].val]

\* unique dates, in order
Increasing(dates) == \A i \in 1..(Len(dates) - 1) : dates[i] < dates[i + 1]

\* a file of the five columns, every row dated, the dates unique and in order
WellFormed(f) ==
  /\ f.exists
  /\ [j \in 1..Len(f.header) |-> strip(f.header[j])] = <<"Date">> \o crops
  /\ Len(FileDates(f)) = Len(f.rows)
  /\ Increasing(FileDates(f))

InitialFiles ==
  {NoFile, BlankFile, NoDateFile, PaddedFile, UndatedFile} \cup Range(Uploads)

\* no run of the script yet
NoRun ==
  /\ new_file = [s \in Sessions |-> 0]
  /\ crop_select = [s \in Sessions |-> crops[1]]
  /\ clicked = [s \in Sessions |-> "none"]
  /\ form = [s \in Sessions |-> NoEntry]
  /\ pc = [s \in Sessions |-> "idle"]
  /\ rerun = [s \in Sessions |-> FALSE]
  /\ price_df = [s \in Sessions |-> EmptyFrame]
  /\ signal = [s \in Sessions |-> "none"]
  /\ view = [s \in Sessions |-> NoView]
  /\ log = NoLog
  /\ start_file = [s \in Sessions |-> NoFile]
  /\ writes = <<>>

Init ==
  /\ file \in InitialFiles
  /\ strict \in BOOLEAN
  /\ clean = WellFormed(file)
  /\ toggle = [s \in Sessions |-> FALSE]
  /\ admin_pass = [s \in Sessions |-> ""]
  /\ NoRun
  /\ cur = 0 /\ avg = 0 /\ rec = ""

(***************************************************************************)
(* The script run, up to the data management tab.  Streamlit runs the      *)
(* script from its first line on every change of a widget and every click; *)
(* an exception that the script does not catch ends the run.               *)
(***************************************************************************)
\* tab1, "Current Market Prices": one metric per crop
metrics(df) ==
  [k \in 1..Len(crops) |->
     [value |-> latest(df, crops[k]), delta |-> delta(df, crops[k])]]

\* what the run shows of a frame, and the part of the script that raised:
\* latest[crop] raises KeyError on a last row without the column;
\* price_df['Date'] raises KeyError on a frame without the column, and
\* st.date_input is given NaT for both ends of the range where the frame
\* has no row, which it may refuse; price_df[selected_crop] raises KeyError
\* on a frame without the column
render(df, crop, refused) ==
  IF \E c \in Crops : ~latest_has(df, c)
    THEN [NoView EXCEPT !.raised = "metrics"]
  ELSE IF ~HasColumn(df, "Date") \/ (df.rows = <<>> /\ refused)
    THEN [NoView EXCEPT !.metrics = metrics(df), !.raised = "chart"]
  ELSE IF ~HasColumn(df, crop)
    THEN [NoView EXCEPT !.metrics = metrics(df), !.raised = "advisor"]
  ELSE [metrics |-> metrics(df),
        crop |-> crop,
        current_price |-> latest(df, crop),
        avg_price |-> mean(df, crop),
        raised |-> "none"]

\* tab2, lines 187 to 208: the card the advisor shows for what it read
recommendation(shown) == recommend(shown.current_price, shown.avg_price)

shared == <<file, strict, log, clean>>

widgets == <<toggle, admin_pass, new_file, crop_select>>

locals == <<clicked, form, pc, rerun, price_df, signal, view, start_file>>

recommendVars == <<cur, avg, rec>>

\* lines 125 to 222: price_df = load_price_data(), tab1 and tab2.  button
\* is the button whose click started the run, entry the form's fields.
RunScript(s, crop, button, entry, again) ==
  \E loaded \in {load_price_data(file, strict)} :
    \E refused \in IF loaded.df.rows = <<>> THEN BOOLEAN ELSE {FALSE} :
      \E shown \in {render(loaded.df, crop, refused)} :
        /\ price_df' = [price_df EXCEPT ![s] = loaded.df]
        /\ signal' = [signal EXCEPT ![s] = loaded.signal]
        /\ start_file' = [start_file EXCEPT ![s] = file]
        /\ view' = [view EXCEPT ![s] = shown]
        /\ pc' = [pc EXCEPT ![s] = IF shown.raised = "none" THEN "tab3" ELSE "idle"]
        /\ clicked' = [clicked EXCEPT ![s] = IF shown.raised = "none" THEN button ELSE "none"]
        /\ form' = [form EXCEPT ![s] = IF shown.raised = "none" THEN entry ELSE NoEntry]
        /\ rerun' = [rerun EXCEPT ![s] = again /\ shown.raised = "none"]
        /\ UNCHANGED <<shared, writes, recommendVars>>

(***************************************************************************)
(* What the user does: each starts a run of the script.  A widget keeps    *)
(* its value from run to run; a button is down for the run it starts.      *)
(***************************************************************************)
\* the page is opened or reloaded
Refresh(s) ==
  /\ pc[s] = "idle"
  /\ RunScript(s, crop_select[s], "none", NoEntry, FALSE)
  /\ UNCHANGED <<toggle, admin_pass, new_file, crop_select>>

\* st.toggle("Enable Admin Mode")
Toggle(s) ==
  /\ pc[s] = "idle"
  /\ toggle' = [toggle EXCEPT ![s] = ~toggle[s]]
  /\ RunScript(s, crop_select[s], "none", NoEntry, FALSE)
  /\ UNCHANGED <<admin_pass, new_file, crop_select>>

\* st.text_input("Enter Admin Password", type="password")
EnterPassword(s, p) ==
  /\ pc[s] = "idle"
  /\ admin_pass' = [admin_pass EXCEPT ![s] = p]
  /\ RunScript(s, crop_select[s], "none", NoEntry, FALSE)
  /\ UNCHANGED <<toggle, new_file, crop_select>>

\* st.file_uploader("Upload Updated CSV", type="csv"): a file is staged
\* (u > 0) or the staged file is removed (u = 0)
Upload(s, u) ==
  /\ pc[s] = "idle"
  /\ new_file' = [new_file EXCEPT ![s] = u]
  /\ RunScript(s, crop_select[s], "none", NoEntry, FALSE)
  /\ UNCHANGED <<toggle, admin_pass, crop_select>>

\* st.selectbox("Select Your Crop", crops, key='crop_select')
SelectCrop(s, c) ==
  /\ pc[s] = "idle"
  /\ crop_select' = [crop_select EXCEPT ![s] = c]
  /\ RunScript(s, c, "none", NoEntry, FALSE)
  /\ UNCHANGED <<toggle, admin_pass, new_file>>

\* st.button("Preview Data")
ClickPreview(s) ==
  /\ pc[s] = "idle"
  /\ RunScript(s, crop_select[s], "preview", NoEntry, FALSE)
  /\ UNCHANGED <<toggle, admin_pass, new_file, crop_select>>

\* st.button("Commit Changes", type="primary")
ClickCommit(s) ==
  /\ pc[s] = "idle"
  /\ RunScript(s, crop_select[s], "commit", NoEntry, FALSE)
  /\ UNCHANGED <<toggle, admin_pass, new_file, crop_select>>

\* st.form_submit_button("Submit Entry", type="primary"), the form filled
\* with a date and prices
Submit(s, d) ==
  /\ pc[s] = "idle"
  /\ Len(file.rows) < MaxRows
  /\ RunScript(s, crop_select[s], "submit", new_entry(d, FormPrices), FALSE)
  /\ UNCHANGED <<toggle, admin_pass, new_file, crop_select>>

\* st.rerun() after a write: the script starts again
Rerun(s) ==
  /\ pc[s] = "rerun"
  /\ RunScript(s, crop_select[s], "none", NoEntry, TRUE)
  /\ UNCHANGED <<toggle, admin_pass, new_file, crop_select>>

(***************************************************************************)
(* tab3, "Data Management Portal".                                         *)
(***************************************************************************)
\* access on the toggle alone, against which C6 is tested
toggle_alone(s) == toggle[s]

\* if st.toggle("Enable Admin Mode"): ... if admin_pass == st.secrets.get(...)
access_granted(s) == toggle[s] /\ admin_pass[s] = ADMIN_PASS

\* the run goes on to its last line
EndRun(s) ==
  /\ pc' = [pc EXCEPT ![s] = "idle"]
  /\ UNCHANGED <<file, log, clean, price_df>>

\* "Commit Changes": new_df.to_csv(PRICE_FILE, index=False); st.rerun()
Commit(s) ==
  /\ file' = commit_upload(Uploads[new_file[s]])
  /\ log' = [NoLog EXCEPT !.op = "replace", !.by = s, !.upload = Uploads[new_file[s]]]
  /\ clean' = (clean /\ WellFormed(Uploads[new_file[s]]))
  /\ pc' = [pc EXCEPT ![s] = "rerun"]
  /\ UNCHANGED price_df

\* a submit that adds the entry to the file as it is now and not to the
\* frame the run loaded, against which C9 is tested
SubmitMerged(s) ==
  /\ price_df' = [price_df EXCEPT ![s] = append_entry(price_df[s], form[s])]
  /\ file' = to_csv(append_entry(load_price_data(file, strict).df, form[s]))
  /\ log' = [NoLog EXCEPT !.op = "append", !.by = s, !.frame = price_df[s],
                          !.entry = form[s]]
  /\ clean' = clean
  /\ pc' = [pc EXCEPT ![s] = "rerun"]

\* "Submit Entry": price_df.loc[len(price_df)] = new_entry;
\* price_df.to_csv(PRICE_FILE, index=False); st.rerun()
SubmitEntry(s) ==
  /\ price_df' = [price_df EXCEPT ![s] = append_entry(price_df[s], form[s])]
  /\ file' = to_csv(append_entry(price_df[s], form[s]))
  /\ log' = [NoLog EXCEPT !.op = "append", !.by = s, !.frame = price_df[s],
                          !.entry = form[s]]
  /\ clean' = clean
  /\ pc' = [pc EXCEPT ![s] = "rerun"]

Manage(s) ==
  /\ pc[s] = "tab3"
  /\ IF ~access_granted(s)
       THEN EndRun(s)
     ELSE IF new_file[s] # 0 /\ upload_readable(Uploads[new_file[s]]) /\ clicked[s] = "commit"
       THEN Commit(s)
     ELSE IF clicked[s] = "submit"
       THEN SubmitEntry(s)
     ELSE EndRun(s)
  /\ clicked' = [clicked EXCEPT ![s] = "none"]
  /\ form' = [form EXCEPT ![s] = NoEntry]
  /\ rerun' = [rerun EXCEPT ![s] = FALSE]
  /\ UNCHANGED <<strict, toggle, admin_pass, new_file, crop_select, signal, view,
                 start_file, recommendVars>>

SelectableCrops == {crops[1], crops[4]}

Step(s) ==
  \/ Refresh(s)
  \/ Toggle(s)
  \/ \E p \in Passwords : EnterPassword(s, p)
  \/ \E u \in 0..Len(Uploads) : Upload(s, u)
  \/ \E c \in SelectableCrops : SelectCrop(s, c)
  \/ ClickPreview(s)
  \/ ClickCommit(s)
  \/ \E d \in Days : Submit(s, d)
  \/ Rerun(s)
  \/ Manage(s) /\ UNCHANGED writes

\* one browser session
Next == Step(1)

Spec == Init /\ [][Next]_vars

(***************************************************************************)
(* Two administrators' sessions on the one backing file.  Each has admin   *)
(* mode on and the password entered; writes records who wrote, what, and   *)
(* the file the writing run had loaded.  A run's write of the file is one  *)
(* step.                                                                   *)
(***************************************************************************)
RaceFiles == {NoFile, PaddedFile, Uploads[1]}

InitRace ==
  /\ file \in RaceFiles
  /\ strict \in BOOLEAN
  /\ clean = WellFormed(file)
  /\ toggle = [s \in Sessions |-> TRUE]
  /\ admin_pass = [s \in Sessions |-> ADMIN_PASS]
  /\ NoRun
  /\ cur = 0 /\ avg = 0 /\ rec = ""

ManageRecorded(s) ==
  /\ Manage(s)
  /\ writes' = IF pc'[s] = "rerun"
                 THEN Append(writes, [by |-> s, entry |-> form[s], loaded |-> start_file[s]])
                 ELSE writes

\* each administrator submits one entry
RaceStep(s) ==
  \/ Refresh(s)
  \/ \E d \in Days : (\A k \in 1..Len(writes) : writes[k].by # s) /\ Submit(s, d)
  \/ Rerun(s)
  \/ ManageRecorded(s)

NextRace == \E s \in Sessions : RaceStep(s)

SpecRace == InitRace /\ [][NextRace]_vars

(***************************************************************************)
(* recommend on its own: a current price and an average of one price.      *)
(***************************************************************************)
InitRecommend ==
  /\ file = NoFile
  /\ strict = FALSE
  /\ clean = TRUE
  /\ toggle = [s \in Sessions |-> FALSE]
  /\ admin_pass = [s \in Sessions |-> ""]
  /\ NoRun
  /\ cur \in 0..MaxPrice
  /\ avg \in 0..MaxPrice
  /\ rec = ""

Recommend ==
  /\ rec = ""
  /\ rec' = recommend(cur, [nan |-> FALSE, sum |-> avg, count |-> 1])
  /\ UNCHANGED <<shared, widgets, locals, writes, cur, avg>>

NextRecommend == Recommend

SpecRecommend == InitRecommend /\ [][NextRecommend]_vars

(***************************************************************************)
(* The properties.                                                         *)
(***************************************************************************)
\* the session whose run is the one started by st.rerun() after its write
Reloaded(s) == rerun[s] /\ pc[s] = "tab3" /\ log.by = s

\* a frame has a row with the entry's date and its four prices
FrameHolds(df, entry) ==
  \E i \in 1..Len(df.rows) :
    /\ df.rows[i].vals[IndexOf(df.columns, "Date")].val = entry.Date.val
    /\ df.rows[i].vals[IndexOf(df.columns, "Date")].fmt \in {"ts0", "tsf"}
    /\ \A c \in Crops : df.rows[i].vals[IndexOf(df.columns, c)] = entry[c]

\* a file has a row with the entry's date and its four prices
FileHolds(f, entry) ==
  /\ f.exists
  /\ \E i \in 1..Len(f.rows) :
       /\ f.rows[i][IndexOf(f.header, "Date")].val = entry.Date.val
       /\ f.rows[i][IndexOf(f.header, "Date")].fmt \in {"D", "DT", "DTF"}
       /\ \A c \in Crops : f.rows[i][IndexOf(f.header, c)] = entry[c]

\* C1: the file is replaced only by an upload that has every commodity
\* column: a replace with an upload that lacks one fails and leaves the
\* file as it was, so the last write is never a replace by such an upload.
C1_ReplaceNeedsEveryColumn ==
  log.op = "replace" => \A c \in Crops : c \in Range(log.upload.header)

\* C2: after an entry is appended, the load that follows returns a history
\* with a record of the entry's date and its four prices, also where the
\* history appended to was the fallback.
C2_AppendedEntryIsLoaded ==
  \A s \in Sessions :
    (Reloaded(s) /\ log.op = "append") => FrameHolds(price_df[s], log.entry)

\* C3: a load returns the rows of the file whose date is a date, all of
\* them and in the file's order, and none of the others.
C3_LoadKeepsDatedRows ==
  \A s \in Sessions :
    (pc[s] = "tab3" /\ signal[s] = "none") =>
      LET f == start_file[s]
          at == CHOOSE j \in 1..Len(f.header) : strip(f.header[j]) = "Date"
          dated == SelectSeq([i \in 1..Len(f.rows) |-> [label |-> i - 1, vals |-> f.rows[i]]],
                             LAMBDA r : r.vals[at].fmt \in {"D", "DT", "DTF"})
      IN /\ Len(price_df[s].rows) = Len(dated)
         /\ \A k \in 1..Len(dated) :
              /\ price_df[s].rows[k].label = dated[k].label
              /\ price_df[s].rows[k].vals[at].val = dated[k].vals[at].val
              /\ \A j \in 1..Len(f.header) :
                   j # at => price_df[s].rows[k].vals[j] = dated[k].vals[j]

\* C4: a load with no backing file returns one record, its prices the
\* fallback prices 2250, 3150, 850 and 1250, tells the user the store is
\* missing, and creates no file.
C4_MissingFileGivesFallback ==
  \A s \in Sessions :
    (pc[s] = "tab3" /\ ~start_file[s].exists) =>
      /\ signal[s] = "StoreMissing"
      /\ Len(price_df[s].rows) = 1
      /\ price_df[s].columns = <<"Date", "Wheat", "Rice", "Potatoes", "Tomatoes">>
      /\ [j \in 1..4 |-> price_df[s].rows[1].vals[j + 1]]
           = <<Num(2250), Num(3150), Num(850), Num(1250)>>
      /\ ~file.exists

C4_Witness ==
  /\ pc[1] = "tab3"
  /\ ~start_file[1].exists
  /\ signal[1] = "StoreMissing"
  /\ view[1].metrics # <<>>

\* C5: recommend gives Sell exactly where the current price is above 1.15
\* times the average, Hold exactly where it is below 0.85 times the
\* average, and Stable otherwise, a price on a threshold included.
C5_RecommendThresholds ==
  rec # "" =>
    rec = IF 100 * cur > 115 * avg THEN "Sell"
          ELSE IF 100 * cur < 85 * avg THEN "Hold"
          ELSE "Stable"

\* C6: a step writes the backing file only in a session whose admin mode
\* is on and whose password field holds the configured secret.
C6_WriteNeedsAdmin ==
  [][(file' # file \/ log' # log) =>
       \E s \in Sessions :
         /\ pc[s] = "tab3" /\ pc'[s] = "rerun"
         /\ toggle[s]
         /\ admin_pass[s] = ADMIN_PASS]_vars

C6_Witness ==
  /\ log.op \in {"append", "replace"}
  /\ toggle[log.by]
  /\ admin_pass[log.by] = ADMIN_PASS
  /\ pc[log.by] = "rerun"

\* C7: where the file at the start and every upload committed were well
\* formed, the backing file has unique dates in order.
C7_DatesUniqueAndOrdered ==
  clean => Increasing(FileDates(file))

C9_LastWriterWins ==
  Len(writes) = 2 =>
    LET first == writes[1]
        last == writes[2]
    IN (first.by # last.by /\ first.loaded = last.loaded /\ first.entry # last.entry) =>
         /\ file = to_csv(append_entry(load_price_data(last.loaded, strict).df, last.entry))
         /\ FileHolds(file, last.entry)
         /\ ~FileHolds(file, first.entry)

C9_Witness ==
  /\ Len(writes) = 2
  /\ writes[1].by # writes[2].by
  /\ writes[1].loaded = writes[2].loaded
  /\ writes[1].entry # writes[2].entry
  /\ writes[1].loaded.exists
  /\ FileHolds(file, writes[2].entry)

\* C10: an append leaves every record of the history as it was, adds one
\* record, and the record added is the last, whatever the row labels.
C10_AppendKeepsEveryRecord ==
  log.op = "append" =>
    LET before == to_csv(log.frame).rows
    IN /\ Len(file.rows) = Len(before) + 1
       /\ \A i \in 1..Len(before) : file.rows[i] = before[i]
       /\ FileHolds([file EXCEPT !.rows = <<file.rows[Len(file.rows)]>>], log.entry)

====
